---- MODULE Spec2Model ----
(***************************************************************************)
(* A model of the DuckDB resource of dagster_example                       *)
(* (src/dagster_example/resources.py) and of the programs of the          *)
(* repository that open the same database file.                            *)
(*                                                                         *)
(* A worker process that calls get_connection walks through the lines of  *)
(* the context manager: mkdir (28), open of the lock file (32),            *)
(* flock(LOCK_EX) (36), duckdb.connect (39), the caller's block (41),      *)
(* conn.close() (43) and the outer finally (46-47).  The kernel's flock   *)
(* table, the engine's own handle on the database file and the catalogue  *)
(* of tables are shared state.                                             *)
(***************************************************************************)
EXTENDS Integers, Sequences, FiniteSets, TLC

VARIABLES
    procs,          \* the worker processes that use a DuckDBResource
    database_path,  \* DuckDBResource.database_path: FilePath or MemoryPath
    pc,             \* pc[p]: the line of get_connection process p is at
    exc,            \* exc[p]: the exception in flight in p ("none" if none)
    result,         \* result[p]: how p's last call ended
    dirExists,      \* the parent directory of the database exists
    lockFileExists, \* <database_path>.lock exists on disk
    dbFileExists,   \* the database file exists on disk
    fds,            \* processes with an open descriptor on the lock file
    locked,         \* processes whose descriptor holds LOCK_EX
    handles,        \* worker processes with a live duckdb connection
    scriptHandles,  \* scripts with a live duckdb connection
    fileTables,     \* the catalogue of the database file
    memTables,      \* memTables[p]: the catalogue of p's in-memory database
    lastRows,       \* lastRows[t]: what the last successful load of t wrote
    lastFile,       \* lastFile[t]: the file that load read
    lastLoader,     \* lastLoader[t]: the process that made that load, if any
    reloaded,       \* the scope in progress has re-read its table's last file
    nested,         \* nested[p]: the line of a call p made inside its scope
    nestedFds,      \* processes with a second descriptor on the lock file
    overtaken,      \* overtaken[p]: grants to others while p waits in flock
    mtime,          \* mtime[f]: st_mtime of raw file f, 0 when it is missing
    salesCursor,    \* the cursor of sales_file_sensor
    multiCursor,    \* the cursor of multi_file_sensor
    salesResult,    \* what sales_file_sensor returned last
    multiResult,    \* what multi_file_sensor returned last
    salesRequests,  \* RunRequests of sales_file_sensor since a file changed
    multiRequests   \* RunRequests of multi_file_sensor since a file changed

\* The resource, its callers, the lock file and the database.
coreVars == <<procs, database_path, pc, exc, result, dirExists,
              lockFileExists, dbFileExists, fds, locked, handles,
              scriptHandles, fileTables, memTables, lastRows, lastFile,
              lastLoader, reloaded>>

\* The sensors and the raw files they watch.
sensorVars == <<mtime, salesCursor, multiCursor, salesResult, multiResult,
                salesRequests, multiRequests>>

\* What a plain call of get_connection leaves alone.
aux == <<nested, nestedFds, overtaken, sensorVars>>

vars == <<coreVars, aux>>

----------------------------------------------------------------------------
(* Bounds and inputs *)

\* Number of worker processes of the general specification.
NumProcs == 2

\* Pool(processes=3) of test_multiprocess.py, the three raw assets of
\* test_concurrent.py.
NumWorkers == 3

FilePath == "data/warehouse/analytics.duckdb"
MemoryPath == ":memory:"

NoFile == ""

TableNames == {"raw_customers", "raw_products", "raw_sales"}

\* The tables and files the callers of the general specification name.
InputTables == {"raw_customers", "raw_products"}
InputFiles == {"customers.csv", "products.csv", "/nonexistent.csv"}

\* The asset that worker p of the concurrent scenario materializes.
WorkerTable(p) ==
    CASE p = 1 -> "raw_customers"
      [] p = 2 -> "raw_products"
      [] OTHER -> "raw_sales"

WorkerFile(p) ==
    CASE p = 1 -> "customers.csv"
      [] p = 2 -> "products.csv"
      [] OTHER -> "sales.csv"

\* The filesystem's view of the source files: which exist, and their rows.
FileExists(f) == f # "/nonexistent.csv"

CsvRows(f) ==
    CASE f = "customers.csv" -> <<1, 2>>
      [] f = "products.csv" -> <<3>>
      [] f = "sales.csv" -> <<4, 5, 6>>
      [] OTHER -> <<>>

Scripts == {"query_example", "open_duckdb_ui", "test_concurrent"}

\* raw_files of multi_file_sensor, in the order of its loop.
RawFileList == <<"sales.csv", "customers.csv", "products.csv">>
RawFiles == {RawFileList[i] : i \in 1..Len(RawFileList)}

\* context.cursor of a sensor that has not set one: None.
NoCursor == <<>>

NoTable == [exists |-> FALSE, rows |-> <<>>]
EmptyCatalogue == [t \in TableNames |-> NoTable]

----------------------------------------------------------------------------
(* The engine *)

\* The catalogue process p's connection works on: duckdb.connect(":memory:")
\* gives every connection a database of its own, a file path the shared file.
View(p) == IF database_path = MemoryPath THEN memTables[p] ELSE fileTables

\* DuckDB holds the database file exclusively for the process that opened it
\* read-write: a connect from another program raises while that handle lives.
EngineLocked(p) ==
    database_path = FilePath /\ (handles \ {p} # {} \/ scriptHandles # {})

EngineLockedScript(s) ==
    database_path = FilePath /\ (handles # {} \/ scriptHandles \ {s} # {})

\* Mutation of CreateOrReplace: CREATE TABLE IF NOT EXISTS followed by an
\* INSERT of the file's rows, which appends to a table that is there.
CreateOrAppend(cat, t, f) ==
    [cat EXCEPT ![t] = [exists |-> TRUE, rows |-> @.rows \o CsvRows(f)]]

\* CREATE OR REPLACE TABLE t AS SELECT * FROM read_csv_auto(f): the table is
\* replaced wholesale by the rows of the file.
CreateOrReplace(cat, t, f) ==
    [cat EXCEPT ![t] = [exists |-> TRUE, rows |-> CsvRows(f)]]

\* What the caller of get_connection sees of an exception: one raised by the
\* statements of its own with block (a query, a load, its own logic) is an
\* error of the body.
Propagated(e) ==
    IF e \in {"QueryError", "LoadError", "BodyError"} THEN "BodyError" ELSE e

----------------------------------------------------------------------------
(* Initial states *)

InitCommon ==
    /\ pc = [p \in procs |-> "idle"]
    /\ exc = [p \in procs |-> "none"]
    /\ result = [p \in procs |-> "none"]
    /\ dirExists = FALSE
    /\ lockFileExists = FALSE
    /\ dbFileExists = FALSE
    /\ fds = {}
    /\ locked = {}
    /\ handles = {}
    /\ scriptHandles = {}
    /\ fileTables = EmptyCatalogue
    /\ memTables = [p \in procs |-> EmptyCatalogue]
    /\ lastRows = [t \in TableNames |-> NoTable]
    /\ lastFile = [t \in TableNames |-> NoFile]
    /\ lastLoader = [t \in TableNames |-> {}]
    /\ reloaded = FALSE
    /\ nested = [p \in procs |-> "none"]
    /\ nestedFds = {}
    /\ overtaken = [p \in procs |-> 0]
    /\ mtime = [f \in RawFiles |-> 0]
    /\ salesCursor = NoCursor
    /\ multiCursor = NoCursor
    /\ salesResult = [kind |-> "none"]
    /\ multiResult = [kind |-> "none"]
    /\ salesRequests = 0
    /\ multiRequests = 0

Init ==
    /\ procs = 1..NumProcs
    /\ database_path \in {FilePath, MemoryPath}
    /\ InitCommon

----------------------------------------------------------------------------
(* get_connection, line by line *)

\* A caller enters get_connection (directly, or through execute_query or
\* read_csv_to_table).
Call(p) ==
    /\ pc[p] = "idle"
    /\ pc' = [pc EXCEPT ![p] = "mkdir"]
    /\ result' = [result EXCEPT ![p] = "none"]
    /\ UNCHANGED <<procs, scriptHandles, database_path, exc, dirExists,
                   lockFileExists, dbFileExists, fds, locked, handles,
                   fileTables, memTables, lastRows, lastFile, lastLoader,
                   reloaded, aux>>

\* Mutation of Mkdir: exist_ok=False, so the call raises FileExistsError (an
\* OSError) when the directory is already there.
MkdirNotExistOk(p) ==
    /\ pc[p] = "mkdir"
    /\ IF dirExists
       THEN /\ pc' = [pc EXCEPT ![p] = "idle"]
            /\ result' = [result EXCEPT ![p] = "OSError"]
            /\ UNCHANGED dirExists
       ELSE /\ dirExists' = TRUE
            /\ pc' = [pc EXCEPT ![p] = "open"]
            /\ UNCHANGED result
    /\ UNCHANGED <<procs, scriptHandles, database_path, exc, lockFileExists,
                   dbFileExists, fds, locked, handles, fileTables, memTables,
                   lastRows, lastFile, lastLoader, reloaded, aux>>

\* db_path.parent.mkdir(parents=True, exist_ok=True)
Mkdir(p) ==
    /\ pc[p] = "mkdir"
    /\ dirExists' = TRUE
    /\ pc' = [pc EXCEPT ![p] = "open"]
    /\ UNCHANGED <<procs, scriptHandles, database_path, exc, result,
                   lockFileExists, dbFileExists, fds, locked, handles,
                   fileTables, memTables, lastRows, lastFile, lastLoader,
                   reloaded, aux>>

\* lock_file = open(lock_file_path, 'w')
OpenLockFile(p) ==
    /\ pc[p] = "open"
    /\ dirExists
    /\ lockFileExists' = TRUE
    /\ fds' = fds \cup {p}
    /\ pc' = [pc EXCEPT ![p] = "flock"]
    /\ UNCHANGED <<procs, scriptHandles, database_path, exc, result,
                   dirExists, dbFileExists, locked, handles, fileTables,
                   memTables, lastRows, lastFile, lastLoader, reloaded, aux>>

\* Mutation of OpenLockFileFails: the error is swallowed and the call goes on
\* to the flock without a descriptor.
OpenLockFileFailsIgnored(p) ==
    /\ pc[p] = "open"
    /\ pc' = [pc EXCEPT ![p] = "flock"]
    /\ UNCHANGED <<procs, scriptHandles, database_path, exc, result,
                   dirExists, lockFileExists, dbFileExists, fds, locked,
                   handles, fileTables, memTables, lastRows, lastFile,
                   lastLoader, reloaded, aux>>

\* open() raises (permissions, ...): the statement is outside every try, so
\* the error leaves get_connection at once.
OpenLockFileFails(p) ==
    /\ pc[p] = "open"
    /\ pc' = [pc EXCEPT ![p] = "idle"]
    /\ result' = [result EXCEPT ![p] = "OSError"]
    /\ UNCHANGED <<procs, scriptHandles, database_path, exc, dirExists,
                   lockFileExists, dbFileExists, fds, locked, handles,
                   fileTables, memTables, lastRows, lastFile, lastLoader,
                   reloaded, aux>>

\* Mutation of Flock: a shared lock (LOCK_SH) is granted whoever else holds
\* one.
FlockShared(p) ==
    /\ pc[p] = "flock"
    /\ locked' = locked \cup {p}
    /\ pc' = [pc EXCEPT ![p] = "connect"]
    /\ UNCHANGED <<procs, scriptHandles, database_path, exc, result,
                   dirExists, lockFileExists, dbFileExists, fds, handles,
                   fileTables, memTables, lastRows, lastFile, lastLoader,
                   reloaded, aux>>

\* fcntl.flock(lock_file.fileno(), fcntl.LOCK_EX): the kernel grants the
\* exclusive lock when no other open file description holds one, and the
\* caller sleeps until then.
Flock(p) ==
    /\ pc[p] = "flock"
    /\ locked \ {p} = {}
    /\ locked' = locked \cup {p}
    /\ pc' = [pc EXCEPT ![p] = "connect"]
    /\ UNCHANGED <<procs, scriptHandles, database_path, exc, result,
                   dirExists, lockFileExists, dbFileExists, fds, handles,
                   fileTables, memTables, lastRows, lastFile, lastLoader,
                   reloaded, aux>>

\* conn = duckdb.connect(str(db_path), read_only=False).  A failure is raised
\* inside the outer try only: control goes to the outer finally.
Connect(p) ==
    /\ pc[p] = "connect"
    /\ IF EngineLocked(p)
       THEN /\ exc' = [exc EXCEPT ![p] = "ConnectionError"]
            /\ pc' = [pc EXCEPT ![p] = "release"]
            /\ UNCHANGED <<handles, memTables, dbFileExists>>
       ELSE /\ handles' = handles \cup {p}
            /\ memTables' = [memTables EXCEPT ![p] = EmptyCatalogue]
            /\ dbFileExists' = (dbFileExists \/ database_path = FilePath)
            /\ pc' = [pc EXCEPT ![p] = "body"]
            /\ UNCHANGED exc
    /\ UNCHANGED <<procs, scriptHandles, database_path, result, dirExists,
                   lockFileExists, fds, locked, fileTables, lastRows,
                   lastFile, lastLoader, reloaded, aux>>

\* The engine cannot open the file (corruption, disk full, ...).
ConnectFails(p) ==
    /\ pc[p] = "connect"
    /\ exc' = [exc EXCEPT ![p] = "ConnectionError"]
    /\ pc' = [pc EXCEPT ![p] = "release"]
    /\ UNCHANGED <<procs, scriptHandles, database_path, result, dirExists,
                   lockFileExists, dbFileExists, fds, locked, handles,
                   fileTables, memTables, lastRows, lastFile, lastLoader,
                   reloaded, aux>>

\* Mutation of ExecuteLoad: the table is dropped first and then created, so a
\* load that fails leaves no table behind.
ExecuteLoadDropFirst(cat, t, f) ==
    IF FileExists(f)
    THEN CreateOrReplace(cat, t, f)
    ELSE [cat EXCEPT ![t] = NoTable]

\* The catalogue after conn.execute("CREATE OR REPLACE TABLE t AS SELECT * FROM
\* read_csv_auto(f)") in autocommit mode: the statement either takes effect as
\* a whole or, when the file cannot be read, is rolled back.
ExecuteLoad(cat, t, f) ==
    IF FileExists(f) THEN CreateOrReplace(cat, t, f) ELSE cat

\* Mutation of ReadCsvToTable: conn.commit() is left out, the with block ends
\* right after the statement.
ReadCsvToTableNoCommit(p, f, t) ==
    /\ pc[p] = "body"
    /\ IF database_path = MemoryPath
       THEN /\ memTables' = [memTables EXCEPT ![p] = ExecuteLoad(@, t, f)]
            /\ UNCHANGED fileTables
       ELSE /\ fileTables' = ExecuteLoad(fileTables, t, f)
            /\ UNCHANGED memTables
    /\ IF FileExists(f)
       THEN /\ lastRows' =
                   [lastRows EXCEPT ![t] = ExecuteLoad(View(p), t, f)[t]]
            /\ lastFile' = [lastFile EXCEPT ![t] = f]
            /\ lastLoader' = [lastLoader EXCEPT ![t] = {p}]
            /\ reloaded' = (lastFile[t] = f)
            /\ UNCHANGED exc
       ELSE /\ exc' = [exc EXCEPT ![p] = "LoadError"]
            /\ UNCHANGED <<lastRows, lastFile, lastLoader, reloaded>>
    /\ pc' = [pc EXCEPT ![p] = "close"]
    /\ UNCHANGED <<procs, scriptHandles, database_path, result, dirExists,
                   lockFileExists, dbFileExists, fds, locked, handles, aux>>

\* The caller is read_csv_to_table(f, t): the statement of lines 58-61 runs
\* on the yielded connection.  An error leaves the with block, so the inner
\* finally (conn.close()) is next.
ReadCsvToTable(p, f, t) ==
    /\ pc[p] = "body"
    /\ IF database_path = MemoryPath
       THEN /\ memTables' = [memTables EXCEPT ![p] = ExecuteLoad(@, t, f)]
            /\ UNCHANGED fileTables
       ELSE /\ fileTables' = ExecuteLoad(fileTables, t, f)
            /\ UNCHANGED memTables
    /\ IF FileExists(f)
       THEN /\ lastRows' =
                   [lastRows EXCEPT ![t] = ExecuteLoad(View(p), t, f)[t]]
            /\ lastFile' = [lastFile EXCEPT ![t] = f]
            /\ lastLoader' = [lastLoader EXCEPT ![t] = {p}]
            /\ reloaded' = (lastFile[t] = f)
            /\ pc' = [pc EXCEPT ![p] = "commit"]
            /\ UNCHANGED exc
       ELSE /\ exc' = [exc EXCEPT ![p] = "LoadError"]
            /\ pc' = [pc EXCEPT ![p] = "close"]
            /\ UNCHANGED <<lastRows, lastFile, lastLoader, reloaded>>
    /\ UNCHANGED <<procs, scriptHandles, database_path, result, dirExists,
                   lockFileExists, dbFileExists, fds, locked, handles, aux>>

\* conn.commit(): the statement above ran in autocommit mode, so the commit
\* changes nothing in the catalogue; the with block ends normally.
Commit(p) ==
    /\ pc[p] = "commit"
    /\ pc' = [pc EXCEPT ![p] = "close"]
    /\ UNCHANGED <<procs, scriptHandles, database_path, exc, result,
                   dirExists, lockFileExists, dbFileExists, fds, locked,
                   handles, fileTables, memTables, lastRows, lastFile,
                   lastLoader, reloaded, aux>>

\* conn.execute(query) for a query that reads table t: a catalogue error when
\* the table is not there.
RunQuery(p, t) ==
    /\ pc[p] = "body"
    /\ exc' = [exc EXCEPT ![p] =
                IF View(p)[t].exists THEN "none" ELSE "QueryError"]
    /\ pc' = [pc EXCEPT ![p] = "close"]
    /\ UNCHANGED <<procs, scriptHandles, database_path, result, dirExists,
                   lockFileExists, dbFileExists, fds, locked, handles,
                   fileTables, memTables, lastRows, lastFile, lastLoader,
                   reloaded, aux>>

\* The caller is execute_query(query).
ExecuteQuery(p, t) == RunQuery(p, t)

\* The caller is a with block of its own (the row count of the raw assets).
CallerBody(p, t) == RunQuery(p, t)

\* Mutation of BodyRaises: a generator without try/finally, which an
\* exception thrown in at the yield leaves at once.
BodyRaisesNoFinally(p) ==
    /\ pc[p] = "body"
    /\ result' = [result EXCEPT ![p] = "BodyError"]
    /\ pc' = [pc EXCEPT ![p] = "idle"]
    /\ UNCHANGED <<procs, scriptHandles, database_path, exc, dirExists,
                   lockFileExists, dbFileExists, fds, locked, handles,
                   fileTables, memTables, lastRows, lastFile, lastLoader,
                   reloaded, aux>>

\* The caller's own logic inside the with block raises.
BodyRaises(p) ==
    /\ pc[p] = "body"
    /\ exc' = [exc EXCEPT ![p] = "BodyError"]
    /\ pc' = [pc EXCEPT ![p] = "close"]
    /\ UNCHANGED <<procs, scriptHandles, database_path, result, dirExists,
                   lockFileExists, dbFileExists, fds, locked, handles,
                   fileTables, memTables, lastRows, lastFile, lastLoader,
                   reloaded, aux>>

\* Mutation of Close: the two finally blocks are swapped, the lock is given up
\* where the connection should be closed.
CloseAfterUnlock(p) ==
    /\ pc[p] = "close"
    /\ locked' = locked \ {p}
    /\ pc' = [pc EXCEPT ![p] = "release"]
    /\ UNCHANGED <<procs, scriptHandles, database_path, exc, result,
                   dirExists, lockFileExists, dbFileExists, fds, handles,
                   fileTables, memTables, lastRows, lastFile, lastLoader,
                   reloaded, aux>>

\* Mutation of Close: the connection is left open when the with block ends.
CloseSkipped(p) ==
    /\ pc[p] = "close"
    /\ pc' = [pc EXCEPT ![p] = "release"]
    /\ UNCHANGED <<procs, scriptHandles, database_path, exc, result,
                   dirExists, lockFileExists, dbFileExists, fds, locked,
                   handles, fileTables, memTables, lastRows, lastFile,
                   lastLoader, reloaded, aux>>

\* The inner finally: conn.close().  The handle is gone, and with it an
\* in-memory database.
Close(p) ==
    /\ pc[p] = "close"
    /\ handles' = handles \ {p}
    /\ memTables' = [memTables EXCEPT ![p] = EmptyCatalogue]
    /\ pc' = [pc EXCEPT ![p] = "release"]
    /\ UNCHANGED <<procs, scriptHandles, database_path, exc, result,
                   dirExists, lockFileExists, dbFileExists, fds, locked,
                   fileTables, lastRows, lastFile, lastLoader, reloaded, aux>>

\* conn.close() raises: the new exception replaces the one in flight and the
\* outer finally still runs.  The engine has dropped the handle by then.
CloseFails(p) ==
    /\ pc[p] = "close"
    /\ handles' = handles \ {p}
    /\ memTables' = [memTables EXCEPT ![p] = EmptyCatalogue]
    /\ exc' = [exc EXCEPT ![p] = "CloseError"]
    /\ pc' = [pc EXCEPT ![p] = "release"]
    /\ UNCHANGED <<procs, scriptHandles, database_path, result, dirExists,
                   lockFileExists, dbFileExists, fds, locked, fileTables,
                   lastRows, lastFile, lastLoader, reloaded, aux>>

\* Mutation of Release: the cleanup also removes the lock file
\* (os.remove(lock_file_path)).
ReleaseUnlinks(p) ==
    /\ pc[p] = "release"
    /\ locked' = locked \ {p}
    /\ fds' = fds \ {p}
    /\ lockFileExists' = FALSE
    /\ result' = [result EXCEPT ![p] =
                      IF exc[p] = "none" THEN "returned" ELSE Propagated(exc[p])]
    /\ exc' = [exc EXCEPT ![p] = "none"]
    /\ pc' = [pc EXCEPT ![p] = "idle"]
    /\ reloaded' = FALSE
    /\ UNCHANGED <<procs, scriptHandles, database_path, dirExists,
                   dbFileExists, handles, fileTables, memTables, lastRows,
                   lastFile, lastLoader, aux>>

\* Mutation of Release: the unlock follows the with block instead of sitting
\* in a finally, so an exception in flight skips it.
ReleaseOnSuccessOnly(p) ==
    /\ pc[p] = "release"
    /\ locked' = IF exc[p] = "none" THEN locked \ {p} ELSE locked
    /\ fds' = IF exc[p] = "none" THEN fds \ {p} ELSE fds
    /\ result' = [result EXCEPT ![p] =
                      IF exc[p] = "none" THEN "returned" ELSE Propagated(exc[p])]
    /\ exc' = [exc EXCEPT ![p] = "none"]
    /\ pc' = [pc EXCEPT ![p] = "idle"]
    /\ reloaded' = FALSE
    /\ UNCHANGED <<procs, scriptHandles, database_path, dirExists,
                   lockFileExists, dbFileExists, handles, fileTables,
                   memTables, lastRows, lastFile, lastLoader, aux>>

\* The outer finally: fcntl.flock(fd, LOCK_UN); lock_file.close().  Then
\* control is back in the caller, with the value or the exception in flight.
Release(p) ==
    /\ pc[p] = "release"
    /\ locked' = locked \ {p}
    /\ fds' = fds \ {p}
    /\ result' = [result EXCEPT ![p] =
                      IF exc[p] = "none" THEN "returned" ELSE Propagated(exc[p])]
    /\ exc' = [exc EXCEPT ![p] = "none"]
    /\ pc' = [pc EXCEPT ![p] = "idle"]
    /\ reloaded' = FALSE
    /\ UNCHANGED <<procs, scriptHandles, database_path, dirExists,
                   lockFileExists, dbFileExists, handles, fileTables,
                   memTables, lastRows, lastFile, lastLoader, aux>>

----------------------------------------------------------------------------
(* The programs that open the database file themselves *)

\* duckdb.connect(db_path) of query_example.py, open_duckdb_ui.py and the
\* verification block of test_concurrent.py: no lock file is involved.  The
\* two scripts return before connecting when the file does not exist; a
\* connect the engine refuses ends the program with nothing changed.
ScriptConnect(s) ==
    /\ database_path = FilePath
    /\ s \notin scriptHandles
    /\ s = "test_concurrent" \/ dbFileExists
    /\ ~EngineLockedScript(s)
    /\ scriptHandles' = scriptHandles \cup {s}
    /\ dbFileExists' = TRUE
    /\ UNCHANGED <<procs, database_path, pc, exc, result, dirExists,
                   lockFileExists, fds, locked, handles, fileTables,
                   memTables, lastRows, lastFile, lastLoader, reloaded, aux>>

\* conn.close() at the end of the program.
ScriptClose(s) ==
    /\ s \in scriptHandles
    /\ scriptHandles' = scriptHandles \ {s}
    /\ UNCHANGED <<procs, database_path, pc, exc, result, dirExists,
                   lockFileExists, dbFileExists, fds, locked, handles,
                   fileTables, memTables, lastRows, lastFile, lastLoader,
                   reloaded, aux>>

----------------------------------------------------------------------------
(* The general specification: any callers, any failures, the scripts *)

Next ==
    \/ \E p \in procs : Call(p)
    \/ \E p \in procs : Mkdir(p)
    \/ \E p \in procs : OpenLockFile(p)
    \/ \E p \in procs : OpenLockFileFails(p)
    \/ \E p \in procs : Flock(p)
    \/ \E p \in procs : Connect(p)
    \/ \E p \in procs : ConnectFails(p)
    \/ \E p \in procs, f \in InputFiles, t \in InputTables : ReadCsvToTable(p, f, t)
    \/ \E p \in procs : Commit(p)
    \/ \E p \in procs, t \in InputTables : ExecuteQuery(p, t)
    \/ \E p \in procs, t \in InputTables : CallerBody(p, t)
    \/ \E p \in procs : BodyRaises(p)
    \/ \E p \in procs : Close(p)
    \/ \E p \in procs : CloseFails(p)
    \/ \E p \in procs : Release(p)
    \/ \E s \in Scripts : ScriptConnect(s)
    \/ \E s \in Scripts : ScriptClose(s)

Spec == Init /\ [][Next]_vars

----------------------------------------------------------------------------
(* The concurrent scenario of test_multiprocess.py and test_concurrent.py:   *)
(* NumWorkers workers on a clean database file, each loading the table of    *)
(* its own asset once; nothing fails for a reason outside the programs.      *)

InitWorkers ==
    /\ procs = 1..NumWorkers
    /\ database_path = FilePath
    /\ InitCommon

\* Every worker runs its task once.
WorkerStart(p) == result[p] = "none" /\ Call(p)

\* The task of worker p: read_csv_to_table of its own file into its own table.
WorkerLoad(p) == ReadCsvToTable(p, WorkerFile(p), WorkerTable(p))

WorkerStep(p) ==
    \/ WorkerStart(p)
    \/ Mkdir(p)
    \/ OpenLockFile(p)
    \/ Flock(p)
    \/ Connect(p)
    \/ WorkerLoad(p)
    \/ Commit(p)
    \/ Close(p)
    \/ Release(p)

NextWorkers ==
    \/ \E p \in procs : WorkerStart(p)
    \/ \E p \in procs : Mkdir(p)
    \/ \E p \in procs : OpenLockFile(p)
    \/ \E p \in procs : Flock(p)
    \/ \E p \in procs : Connect(p)
    \/ \E p \in procs : WorkerLoad(p)
    \/ \E p \in procs : Commit(p)
    \/ \E p \in procs : Close(p)
    \/ \E p \in procs : Release(p)

\* The operating system schedules every runnable process.
SpecWorkers ==
    /\ InitWorkers
    /\ [][NextWorkers]_vars
    /\ \A p \in 1..NumWorkers : WF_vars(WorkerStep(p))

-----------------------------------------------------------------------------
(* The sensors of sensors.py and the raw files they watch.  The daemon runs  *)
(* one evaluation of a sensor at a time; files change between evaluations.   *)

\* Modification times are 1..MaxTime; RunRequests since the last change of a
\* file are counted up to MaxRequests.
MaxTime == 2
MaxRequests == 2

SalesFile == "sales.csv"

\* str(latest_modified): the text kept as the cursor.
Str(t) == <<t>>

\* float(context.cursor) if context.cursor else 0
CursorValue(c) == IF c # NoCursor THEN c[1] ELSE 0

NoResult == [kind |-> "none"]
RunRequest(key) == [kind |-> "RunRequest", run_key |-> key]
SkipReason(msg) == [kind |-> "SkipReason", message |-> msg]

\* A raw file is written (created or modified): its st_mtime changes.
Touch(f, t) ==
    /\ mtime[f] # t
    /\ mtime' = [mtime EXCEPT ![f] = t]
    /\ salesRequests' = IF f = SalesFile THEN 0 ELSE salesRequests
    /\ multiRequests' = 0
    /\ UNCHANGED <<coreVars, nested, nestedFds, overtaken, salesCursor,
                   multiCursor, salesResult, multiResult>>

\* A raw file is deleted.
Remove(f) ==
    /\ mtime[f] # 0
    /\ mtime' = [mtime EXCEPT ![f] = 0]
    /\ salesRequests' = IF f = SalesFile THEN 0 ELSE salesRequests
    /\ multiRequests' = 0
    /\ UNCHANGED <<coreVars, nested, nestedFds, overtaken, salesCursor,
                   multiCursor, salesResult, multiResult>>

\* sales_file_sensor(context).  It reads the cursor and never updates it.
SalesFileSensor ==
    /\ IF mtime[SalesFile] = 0
       THEN /\ salesResult' = SkipReason("Sales file does not exist")
            /\ UNCHANGED salesRequests
       ELSE IF mtime[SalesFile] > CursorValue(salesCursor)
       THEN /\ salesRequests < MaxRequests
            /\ salesResult' = RunRequest(mtime[SalesFile])
            /\ salesRequests' = salesRequests + 1
       ELSE /\ salesResult' = SkipReason("No new updates to sales file")
            /\ UNCHANGED salesRequests
    /\ UNCHANGED <<coreVars, nested, nestedFds, overtaken, mtime, salesCursor,
                   multiCursor, multiResult, multiRequests>>

\* The loop of multi_file_sensor over raw_files[i..], latest_modified so far.
RECURSIVE LatestModified(_, _)
LatestModified(i, latest) ==
    IF i > Len(RawFileList)
    THEN latest
    ELSE IF mtime[RawFileList[i]] # 0 /\ mtime[RawFileList[i]] > latest
         THEN LatestModified(i + 1, mtime[RawFileList[i]])
         ELSE LatestModified(i + 1, latest)

\* Mutation of MultiFileSensor: the call of context.update_cursor is left out.
MultiFileSensorNoUpdate ==
    /\ IF LatestModified(1, 0) > CursorValue(multiCursor)
       THEN /\ multiRequests < MaxRequests
            /\ multiResult' = RunRequest(LatestModified(1, 0))
            /\ multiRequests' = multiRequests + 1
       ELSE /\ multiResult' = SkipReason("No updates to raw data files")
            /\ UNCHANGED multiRequests
    /\ UNCHANGED <<coreVars, nested, nestedFds, overtaken, mtime, salesCursor,
                   multiCursor, salesResult, salesRequests>>

\* multi_file_sensor(context)
MultiFileSensor ==
    /\ IF LatestModified(1, 0) > CursorValue(multiCursor)
       THEN /\ multiRequests < MaxRequests
            /\ multiCursor' = Str(LatestModified(1, 0))
            /\ multiResult' = RunRequest(LatestModified(1, 0))
            /\ multiRequests' = multiRequests + 1
       ELSE /\ multiResult' = SkipReason("No updates to raw data files")
            /\ UNCHANGED <<multiCursor, multiRequests>>
    /\ UNCHANGED <<coreVars, nested, nestedFds, overtaken, mtime, salesCursor,
                   salesResult, salesRequests>>

NextSensors ==
    \/ \E f \in RawFiles, t \in 1..MaxTime : Touch(f, t)
    \/ \E f \in RawFiles : Remove(f)
    \/ SalesFileSensor
    \/ MultiFileSensor

SpecSensors == Init /\ [][NextSensors]_vars

-----------------------------------------------------------------------------
(* Callers whose wait for the lock can be cut short: a signal handler that   *)
(* raises (KeyboardInterrupt on SIGINT, the interrupt of a terminated run)   *)
(* or an error of the system call (ENOLCK) ends flock with an exception.     *)

\* fcntl.flock(..., LOCK_EX) raises.  The call is inside the outer try, so the
\* outer finally is next, although the lock was not acquired.
FlockInterrupted(p) ==
    /\ pc[p] = "flock"
    /\ exc' = [exc EXCEPT ![p] = "FlockError"]
    /\ pc' = [pc EXCEPT ![p] = "release"]
    /\ UNCHANGED <<procs, scriptHandles, database_path, result, dirExists,
                   lockFileExists, dbFileExists, fds, locked, handles,
                   fileTables, memTables, lastRows, lastFile, lastLoader,
                   reloaded, aux>>

NextSignals ==
    \/ \E p \in procs : Call(p)
    \/ \E p \in procs : Mkdir(p)
    \/ \E p \in procs : OpenLockFile(p)
    \/ \E p \in procs : OpenLockFileFails(p)
    \/ \E p \in procs : Flock(p)
    \/ \E p \in procs : FlockInterrupted(p)
    \/ \E p \in procs : Connect(p)
    \/ \E p \in procs : ConnectFails(p)
    \/ \E p \in procs, f \in InputFiles, t \in InputTables : ReadCsvToTable(p, f, t)
    \/ \E p \in procs : Commit(p)
    \/ \E p \in procs, t \in InputTables : ExecuteQuery(p, t)
    \/ \E p \in procs : BodyRaises(p)
    \/ \E p \in procs : Close(p)
    \/ \E p \in procs : CloseFails(p)
    \/ \E p \in procs : Release(p)

SpecSignals == Init /\ [][NextSignals]_vars

-----------------------------------------------------------------------------
(* Contention: NumWorkers processes that each load their table again and    *)
(* again.  overtaken[q] records how many times the lock went to another     *)
(* process while q has been waiting in flock, up to MaxOvertakes.           *)

MaxOvertakes == 2

\* What the grant of the lock to p does to the record of the waiters.
Overtake(p) ==
    [q \in procs |->
        IF q = p THEN 0
        ELSE IF pc[q] = "flock"
             THEN (IF overtaken[q] < MaxOvertakes
                   THEN overtaken[q] + 1 ELSE MaxOvertakes)
             ELSE overtaken[q]]

\* Mutation of FlockOvertaking: the lock is handed out in the order of
\* arrival, a waiter is granted only when none has been overtaken more often.
FlockFifo(p) ==
    /\ pc[p] = "flock"
    /\ locked \ {p} = {}
    /\ \A q \in procs \ {p} : pc[q] = "flock" => overtaken[q] <= overtaken[p]
    /\ locked' = locked \cup {p}
    /\ overtaken' = Overtake(p)
    /\ pc' = [pc EXCEPT ![p] = "connect"]
    /\ UNCHANGED <<procs, scriptHandles, database_path, exc, result,
                   dirExists, lockFileExists, dbFileExists, fds, handles,
                   fileTables, memTables, lastRows, lastFile, lastLoader,
                   reloaded, nested, nestedFds, sensorVars>>

\* fcntl.flock(lock_file.fileno(), fcntl.LOCK_EX) as in Flock, with the record
\* of the waiters it passes over: the kernel grants the lock to any caller
\* when no other open file description holds it, and keeps no queue.
FlockOvertaking(p) ==
    /\ pc[p] = "flock"
    /\ locked \ {p} = {}
    /\ locked' = locked \cup {p}
    /\ overtaken' = Overtake(p)
    /\ pc' = [pc EXCEPT ![p] = "connect"]
    /\ UNCHANGED <<procs, scriptHandles, database_path, exc, result,
                   dirExists, lockFileExists, dbFileExists, fds, handles,
                   fileTables, memTables, lastRows, lastFile, lastLoader,
                   reloaded, nested, nestedFds, sensorVars>>

NextStarve ==
    \/ \E p \in procs : Call(p)
    \/ \E p \in procs : Mkdir(p)
    \/ \E p \in procs : OpenLockFile(p)
    \/ \E p \in procs : FlockOvertaking(p)
    \/ \E p \in procs : Connect(p)
    \/ \E p \in procs : WorkerLoad(p)
    \/ \E p \in procs : Commit(p)
    \/ \E p \in procs : Close(p)
    \/ \E p \in procs : Release(p)

SpecStarve == InitWorkers /\ [][NextStarve]_vars

-----------------------------------------------------------------------------
(* A caller that, inside its scope, calls get_connection again for the same  *)
(* database path (directly or through execute_query or read_csv_to_table).   *)
(* nested[p] is the line the inner call has reached; the outer with block    *)
(* goes on only when the inner call is over.                                 *)

\* The body of the outer scope enters get_connection a second time.
NestedCall(p) ==
    /\ pc[p] = "body"
    /\ nested[p] = "none"
    /\ nested' = [nested EXCEPT ![p] = "mkdir"]
    /\ UNCHANGED <<coreVars, nestedFds, overtaken, sensorVars>>

\* Line 28 of the inner call: the directory is there already.
NestedMkdir(p) ==
    /\ nested[p] = "mkdir"
    /\ dirExists
    /\ nested' = [nested EXCEPT ![p] = "open"]
    /\ UNCHANGED <<coreVars, nestedFds, overtaken, sensorVars>>

\* Line 32 of the inner call: open() gives the process a second descriptor,
\* on a new open file description of the lock file.
NestedOpenLockFile(p) ==
    /\ nested[p] = "open"
    /\ lockFileExists
    /\ nestedFds' = nestedFds \cup {p}
    /\ nested' = [nested EXCEPT ![p] = "flock"]
    /\ UNCHANGED <<coreVars, overtaken, sensorVars>>

\* Mutation of NestedFlock: a lock owned by the process (as fcntl.lockf is),
\* which the owner's second descriptor is granted at once.
NestedFlockReentrant(p) ==
    /\ nested[p] = "flock"
    /\ locked \ {p} = {}
    /\ nested' = [nested EXCEPT ![p] = "connect"]
    /\ UNCHANGED <<coreVars, nestedFds, overtaken, sensorVars>>

\* Line 36 of the inner call: flock(LOCK_EX) on the second descriptor.  The
\* lock belongs to the open file description, so the one p took through its
\* first descriptor counts as held by another: locked must be empty.
NestedFlock(p) ==
    /\ nested[p] = "flock"
    /\ locked = {}
    /\ nested' = [nested EXCEPT ![p] = "connect"]
    /\ UNCHANGED <<coreVars, nestedFds, overtaken, sensorVars>>

\* The outer with block ends (here with a query) once no inner call is open.
OuterBodyEnds(p, t) == nested[p] = "none" /\ RunQuery(p, t)

\* NestedFlock is no disjunct: C18 shows it is never enabled.
NextNested ==
    \/ \E p \in procs : Call(p)
    \/ \E p \in procs : Mkdir(p)
    \/ \E p \in procs : OpenLockFile(p)
    \/ \E p \in procs : Flock(p)
    \/ \E p \in procs : Connect(p)
    \/ \E p \in procs : NestedCall(p)
    \/ \E p \in procs : NestedMkdir(p)
    \/ \E p \in procs : NestedOpenLockFile(p)
    \/ \E p \in procs, t \in InputTables : OuterBodyEnds(p, t)
    \/ \E p \in procs : Close(p)
    \/ \E p \in procs : Release(p)

SpecNested == Init /\ [][NextNested]_vars

-----------------------------------------------------------------------------
(* The scenario of the workers with processes that can be terminated at any  *)
(* point of their call (SIGKILL, a crash): no finally block runs; the kernel *)
(* closes the descriptors of the dead process, and with them go its flock    *)
(* and its handle on the database file.                                      *)

Killed == {"killed", "killed_holding"}

\* Mutation of Kill: the lock outlives the process, as a lock would that
\* consists in the existence of the lock file.
KillLeavesLock(p) ==
    /\ pc[p] \notin {"idle"} \cup Killed
    /\ fds' = fds \ {p}
    /\ handles' = handles \ {p}
    /\ memTables' = [memTables EXCEPT ![p] = EmptyCatalogue]
    /\ exc' = [exc EXCEPT ![p] = "none"]
    /\ reloaded' = FALSE
    /\ pc' = [pc EXCEPT ![p] =
                IF p \in locked THEN "killed_holding" ELSE "killed"]
    /\ UNCHANGED <<procs, scriptHandles, database_path, result, dirExists,
                   lockFileExists, dbFileExists, locked, fileTables, lastRows,
                   lastFile, lastLoader, aux>>

\* Process p is terminated inside get_connection.
Kill(p) ==
    /\ pc[p] \notin {"idle"} \cup Killed
    /\ locked' = locked \ {p}
    /\ fds' = fds \ {p}
    /\ handles' = handles \ {p}
    /\ memTables' = [memTables EXCEPT ![p] = EmptyCatalogue]
    /\ exc' = [exc EXCEPT ![p] = "none"]
    /\ reloaded' = FALSE
    /\ pc' = [pc EXCEPT ![p] =
                IF p \in locked THEN "killed_holding" ELSE "killed"]
    /\ UNCHANGED <<procs, scriptHandles, database_path, result, dirExists,
                   lockFileExists, dbFileExists, fileTables, lastRows,
                   lastFile, lastLoader, aux>>

NextKill ==
    \/ \E p \in procs : WorkerStart(p)
    \/ \E p \in procs : Mkdir(p)
    \/ \E p \in procs : OpenLockFile(p)
    \/ \E p \in procs : Flock(p)
    \/ \E p \in procs : Connect(p)
    \/ \E p \in procs : WorkerLoad(p)
    \/ \E p \in procs : Commit(p)
    \/ \E p \in procs : Close(p)
    \/ \E p \in procs : Release(p)
    \/ \E p \in procs : Kill(p)

\* The operating system schedules every runnable process; nothing says that
\* a process is ever killed.
SpecKill ==
    /\ InitWorkers
    /\ [][NextKill]_vars
    /\ \A p \in 1..NumWorkers : WF_vars(WorkerStep(p))

----------------------------------------------------------------------------
(* Properties *)

InLock == {"connect", "body", "commit", "close", "release"}

\* C1: in every reachable state at most one process holds the exclusive lock
\* on <database_path>.lock.
C1_MutualExclusion == Cardinality(locked) <= 1

\* One process holds the lock while another is blocked in flock.
C1_Witness ==
    \E p, q \in procs : p # q /\ p \in locked /\ pc[q] = "flock" /\ q \in fds

\* C2: a connection obtained through get_connection is open in a process only
\* while that process holds the lock, so no two callers of get_connection hold
\* a connection at the same time.
C2_ConnectionOnlyUnderLock ==
    /\ \A p \in procs : p \in handles => p \in locked
    /\ Cardinality(handles) <= 1

\* A caller has its connection open while another caller waits for the lock.
C2_Witness ==
    \E p, q \in procs : p # q /\ p \in handles /\ pc[p] = "body" /\ pc[q] = "flock"

\* C3: no program of the repository has a handle on the database open without
\* holding the lock on the lock file.  (The scripts never take the lock.)
C3_NoHandleWithoutLock ==
    /\ scriptHandles = {}
    /\ \A p \in procs : p \in handles => p \in locked

\* C4: whenever control is with the caller of get_connection (before the call,
\* or after it ended in any way) the process holds neither the lock nor a
\* descriptor on the lock file; a process that is not yet past flock does not
\* hold the lock.
C4_LockReleasedOnEveryExit ==
    \A p \in procs :
        /\ pc[p] \in {"idle", "mkdir", "open"} => p \notin locked /\ p \notin fds
        /\ pc[p] \notin InLock => p \notin locked

\* Two calls have ended with an exception raised after the lock was acquired,
\* one by the failure of the connect and one by the failure of the close.
C4_Witness ==
    \E p, q \in procs :
        /\ pc[p] = "idle" /\ result[p] = "ConnectionError"
        /\ pc[q] = "idle" /\ result[q] = "CloseError"
        /\ lockFileExists

\* C5: when a caller's scope has exited because its body raised, and no other
\* process is inside a scope, a caller waiting in flock can acquire the lock.
C5_LockFreeAfterBodyRaises ==
    \A p, q \in procs :
        ( /\ p # q
          /\ pc[p] = "idle" /\ result[p] = "BodyError"
          /\ pc[q] = "flock"
          /\ \A r \in procs \ {p} : pc[r] \notin InLock )
        => ENABLED Flock(q)

\* A caller has exited with the error of its body while another one waits.
C5_Witness ==
    \E p, q \in procs :
        /\ p # q
        /\ pc[p] = "idle" /\ result[p] = "BodyError"
        /\ pc[q] = "flock"
        /\ \A r \in procs \ {p} : pc[r] \notin InLock

\* The rows worker p is to leave in its table.
WorkerRows(p) == [exists |-> TRUE, rows |-> CsvRows(WorkerFile(p))]

\* Every worker has returned normally and every table holds its worker's rows.
AllWorkersDone ==
    \A p \in procs :
        /\ pc[p] = "idle"
        /\ result[p] = "returned"
        /\ fileTables[WorkerTable(p)] = WorkerRows(p)

\* C6: with NumWorkers workers loading distinct tables of one database file at
\* the same time, every worker eventually completes without an error, and then
\* each table holds exactly the rows its own worker loaded.
C6_AllWorkersComplete == <>[]AllWorkersDone

\* All workers are done, each table loaded, the lock free and no handle left.
C6_Witness ==
    /\ procs = 1..NumWorkers
    /\ AllWorkersDone
    /\ locked = {} /\ handles = {} /\ fds = {}

\* C7: a table loaded by read_csv_to_table is there, with the loaded rows, in
\* every later scoped connection of the process that loaded it, whatever the
\* database_path (the stated claim; ":memory:" breaks it).
C7_TablePersists ==
    \A p \in procs, t \in TableNames :
        (pc[p] = "body" /\ lastLoader[t] = {p}) => View(p)[t] = lastRows[t]

\* C8: a read_csv_to_table of the file that the previous load of the same
\* table read leaves the table with the rows of that previous load.
C8_LoadIdempotent ==
    [][ \A p \in procs, f \in InputFiles, t \in InputTables :
          (ReadCsvToTable(p, f, t) /\ FileExists(f) /\ lastFile[t] = f)
          => (View(p)[t])' = lastRows[t] ]_vars

\* A process has just loaded into a table the file the table was last loaded
\* from, another process has loaded another table, and the rows are those of
\* the first load.
C8_Witness ==
    \E p, q \in procs, t, u \in InputTables :
        /\ p # q /\ t # u
        /\ pc[p] = "commit" /\ reloaded
        /\ lastLoader[t] = {p} /\ lastLoader[u] = {q}
        /\ fileTables[t] = lastRows[t]
        /\ lastRows[t].exists

\* C9: a read_csv_to_table of a file that does not exist changes no table,
\* raises in the caller's block, and an exception in flight always reaches
\* the caller.
C9_FailedLoadLeavesTables ==
    [][ /\ \A p \in procs, f \in InputFiles, t \in InputTables :
              (ReadCsvToTable(p, f, t) /\ ~FileExists(f))
              => /\ fileTables' = fileTables
                 /\ memTables' = memTables
                 /\ exc'[p] = "LoadError"
        /\ \A p \in procs :
              (exc[p] # "none" /\ pc'[p] # pc[p])
              => \/ exc'[p] # "none"
                 \/ pc'[p] = "idle" /\ result'[p] \notin {"none", "returned"}
      ]_vars

\* A load of a missing file has just failed in a database file in which every
\* table a caller can name, the target among them, had been loaded before.
C9_Witness ==
    \E p \in procs :
        /\ exc[p] = "LoadError"
        /\ pc[p] = "close"
        /\ database_path = FilePath
        /\ \A t \in InputTables : fileTables[t].exists /\ fileTables[t] = lastRows[t]

\* C10: when the lock file cannot be opened the call ends at once with that
\* error: the step takes no lock, opens no connection and no descriptor, and
\* is not tried again.
C10_OpenFailurePropagates ==
    [][ \A p \in procs :
          (pc[p] = "open" /\ pc'[p] # "open" /\ p \notin fds')
          => /\ pc'[p] = "idle"
             /\ result'[p] = "OSError"
             /\ locked' = locked
             /\ handles' = handles
             /\ fds' = fds
      ]_vars

\* A call has ended with the error of the open and holds nothing.
C10_Witness ==
    \E p \in procs :
        /\ pc[p] = "idle" /\ result[p] = "OSError"
        /\ p \notin locked /\ p \notin fds /\ p \notin handles

----------------------------------------------------------------------------
\* C11: get_connection ensures the parent directory before it opens the lock
\* file: the mkdir step of a caller always succeeds, whether the directory is
\* missing or already there (created by an earlier call or by another process
\* in the meantime), it leaves the directory in place, and every caller past
\* it, as well as the lock file itself, finds the directory present.
C11_DirectoryEnsured ==
    /\ [](\A p \in procs :
            /\ pc[p] = "mkdir" => ENABLED Mkdir(p)
            /\ pc[p] \notin {"idle", "mkdir"} => dirExists
            /\ p \in fds => dirExists)
    /\ [](lockFileExists => dirExists)
    /\ [][\A p \in procs :
            (pc[p] = "mkdir" /\ pc'[p] # "mkdir")
                => (pc'[p] = "open" /\ dirExists')]_vars

\* Two processes are past the mkdir at once: the second found the directory
\* of the first and went on to open the lock file.
C11_Witness ==
    \E p, q \in procs :
        /\ p # q
        /\ pc[p] = "open"
        /\ pc[q] = "flock"
        /\ q \in fds
        /\ dirExists

\* C12: sales_file_sensor requests a run for a modification time of the sales
\* file at most once: after a RunRequest, every evaluation with the file
\* unchanged is skipped.  (The sensor never updates its cursor.)
C12_NoRepeatedRequest == salesRequests <= 1

\* The greatest modification time among the raw files that exist, 0 if none.
MaxMtime == CHOOSE t \in 0..(MaxTime + 1) :
                /\ \A f \in RawFiles : mtime[f] <= t
                /\ t = 0 \/ \E f \in RawFiles : mtime[f] = t

\* C20: the cursor of multi_file_sensor never decreases; an evaluation returns
\* a RunRequest and sets the cursor to the latest modification time among the
\* existing raw files exactly when that time is greater than the cursor, and
\* otherwise returns a SkipReason and leaves the cursor alone; so it returns
\* at most one RunRequest while no file changes.
C20_CursorMonotone ==
    /\ [][CursorValue(multiCursor') >= CursorValue(multiCursor)]_vars
    /\ [][MultiFileSensor =>
            IF MaxMtime > CursorValue(multiCursor)
            THEN /\ multiResult' = RunRequest(MaxMtime)
                 /\ multiCursor' = Str(MaxMtime)
                 /\ CursorValue(multiCursor') = MaxMtime
            ELSE /\ multiResult'.kind = "SkipReason"
                 /\ multiCursor' = multiCursor]_vars
    /\ [](multiRequests <= 1)

\* The sensor has requested a run, set its cursor to the latest time, and
\* skipped the next evaluation with the files unchanged; an older raw file
\* exists beside the latest one.
C20_Witness ==
    /\ multiRequests = 1
    /\ multiResult.kind = "SkipReason"
    /\ CursorValue(multiCursor) = MaxTime
    /\ \E f \in RawFiles : mtime[f] # 0 /\ mtime[f] < MaxTime

\* C13: on every exit from a scope of get_connection, normal or by an error,
\* the connection is closed before the lock is released: a process gives up
\* the lock only with its connection already closed, it opens a connection
\* only with the lock held, and the close step leaves the lock held.
C13_CloseBeforeRelease ==
    /\ [][\A p \in procs :
            (p \in locked /\ p \notin locked')
                => (p \notin handles /\ p \notin handles')]_vars
    /\ [][\A p \in procs :
            (p \notin handles /\ p \in handles')
                => (p \in locked /\ p \in locked')]_vars
    /\ [][\A p \in procs :
            (pc[p] = "close" /\ pc'[p] # "close")
                => (pc'[p] = "release" /\ p \notin handles'
                    /\ p \in locked')]_vars

\* One scope has ended normally; another, whose body raised, has closed its
\* connection and still holds the lock.
C13_Witness ==
    \E p, q \in procs :
        /\ p # q
        /\ pc[q] = "idle" /\ result[q] = "returned"
        /\ pc[p] = "release" /\ exc[p] = "BodyError"
        /\ p \in locked /\ p \notin handles

\* C14: read_csv_to_table runs its steps in the order flock, connect,
\* CREATE OR REPLACE, commit, close, release: the statement and the commit
\* run with the lock held and the connection open, a successful statement is
\* followed by the commit, the commit by the close, the lock is given up at
\* the release step only, and while a load awaits its commit no other process
\* holds the lock or can acquire it.
C14_LoadOrder ==
    /\ [](\A p \in procs :
            pc[p] \in {"body", "commit"} => (p \in locked /\ p \in handles))
    /\ [](\A p \in procs : pc[p] = "commit" =>
            \A q \in procs \ {p} : q \notin locked /\ ~ENABLED Flock(q))
    /\ [][\A p \in procs, f \in InputFiles, t \in InputTables :
            (ReadCsvToTable(p, f, t) /\ FileExists(f))
                => pc'[p] = "commit"]_vars
    /\ [][\A p \in procs :
            (pc[p] = "commit" /\ pc'[p] # "commit")
                => (pc'[p] = "close" /\ p \in locked' /\ p \in handles')]_vars
    /\ [][\A p \in procs :
            (p \in locked /\ p \notin locked') => pc[p] = "release"]_vars

\* A load has run its statement and awaits its commit while another process
\* waits in flock.
C14_Witness ==
    \E p, q \in procs, t \in InputTables :
        /\ p # q
        /\ pc[p] = "commit"
        /\ lastLoader[t] = {p}
        /\ View(p)[t].exists
        /\ pc[q] = "flock"

\* C17: the lock file comes into being with the first open of a call and is
\* never deleted afterwards; a process gets a descriptor on it at the open
\* step only, and every call that ends, however it ends, leaves the process
\* without a descriptor and, unless the open itself failed, with the lock
\* file on disk.
C17_LockFileKept ==
    /\ [][lockFileExists => lockFileExists']_vars
    /\ [][\A p \in procs :
            (p \notin fds /\ p \in fds')
                => (pc[p] = "open" /\ lockFileExists')]_vars
    /\ [][\A p \in procs :
            (pc[p] # "idle" /\ pc'[p] = "idle")
                => /\ p \notin fds'
                   /\ result'[p] # "OSError" => lockFileExists']_vars
    /\ [][\A p \in procs :
            (pc'[p] = "idle" /\ result'[p] \notin {"none", "OSError"})
                => (p \notin fds' /\ lockFileExists')]_vars

\* Every process has finished a call, one normally and one with an error
\* raised under the lock; no descriptor is open and the lock file is there.
C17_Witness ==
    /\ \A p \in procs : pc[p] = "idle" /\ result[p] \notin {"none", "OSError"}
    /\ \E p, q \in procs : result[p] = "returned" /\ result[q] = "BodyError"
    /\ fds = {}
    /\ lockFileExists

\* The release step of p: flock(LOCK_UN) and lock_file.close(), after which
\* get_connection is left.
ReleaseStep(p) == pc[p] = "release" /\ pc'[p] = "idle"

\* C15 as stated: the release step runs for a call only when that call's
\* acquisition of the lock has succeeded.
C15_ReleaseOnlyAfterAcquire ==
    [][\A p \in procs : ReleaseStep(p) => p \in locked]_vars

\* C15, amended: the release step runs exactly once for every call that has
\* opened the lock file, and in no other case.  A call acquires the lock at
\* the flock step and gives it up at its release step, so there is one release
\* step for each successful acquisition; a call whose flock raised runs the
\* release step too, without holding the lock; a call whose open failed ends
\* without it.
C15_ReleaseOncePerOpenFile ==
    /\ [][\A p \in procs :
            ReleaseStep(p) => (p \in fds /\ p \notin fds' /\ p \notin locked')]_vars
    /\ [][\A p \in procs :
            (p \notin locked /\ p \in locked')
                => (pc[p] = "flock" /\ pc'[p] = "connect")]_vars
    /\ [][\A p \in procs :
            (p \in locked /\ p \notin locked') => ReleaseStep(p)]_vars
    /\ [][\A p \in procs :
            (pc[p] # "idle" /\ pc'[p] = "idle")
                => \/ ReleaseStep(p)
                   \/ pc[p] = "open" /\ p \notin fds /\ p \notin locked]_vars
    /\ [][\A p \in procs :
            (p \in fds' /\ pc'[p] # pc[p])
                => pc'[p] \in {"flock", "connect", "body", "commit", "close",
                               "release"}]_vars

\* A call whose flock raised has run the release step and left with that
\* error, holding nothing, while another process holds the lock.
C15_Witness ==
    \E p, q \in procs :
        /\ pc[p] = "idle" /\ result[p] = "FlockError"
        /\ p \notin fds /\ p \notin locked
        /\ q \in locked

C18_NotReentrant ==
    /\ [](\A p \in procs : nested[p] = "flock" =>
            /\ ~ENABLED NestedFlock(p)
            /\ p \in nestedFds /\ p \in fds
            /\ p \in locked /\ pc[p] = "body"
            /\ \A q \in procs \ {p} : ~ENABLED Flock(q))
    /\ [][\A p \in procs : nested[p] = "flock" =>
            (nested'[p] = "flock" /\ pc'[p] = "body" /\ p \in locked')]_vars

\* A process is blocked in the flock of its inner call, with two descriptors
\* on the lock file, and another process waits for the lock.
C18_Witness ==
    \E p, q \in procs :
        /\ p # q
        /\ nested[p] = "flock"
        /\ p \in fds /\ p \in nestedFds
        /\ pc[q] = "flock"

\* C19: a process terminated while it holds the lock does not leave the lock
\* held: a dead process holds neither the lock nor a descriptor nor a
\* connection, the lock file it leaves on disk blocks nobody, and every
\* process waiting in flock eventually acquires the lock (or is itself
\* terminated).
C19_KilledHolderFreesLock ==
    /\ [](\A p \in procs : pc[p] \in Killed =>
            (p \notin locked /\ p \notin fds /\ p \notin handles))
    /\ []((\E p \in procs : pc[p] = "killed_holding") => lockFileExists)
    /\ \A q \in 1..NumWorkers :
            (pc[q] = "flock") ~> (q \in locked \/ pc[q] \in Killed)

\* A process was terminated while it held the lock, the lock file is still
\* there, and a process that waited has acquired the lock since.
C19_Witness ==
    \E p, q \in procs :
        /\ pc[p] = "killed_holding"
        /\ lockFileExists
        /\ q \in locked
        /\ pc[q] = "body"

=============================================================================
